---- MODULE Spec2Model ----
(***************************************************************************)
(* Model of src/build.ts: the catalog client (getList, fetchCache,         *)
(* getCast) and the Graph class (fetch, processCast, processSeries).       *)
(*                                                                         *)
(* A JavaScript Map is a sequence of its values in insertion order (the    *)
(* key of every value is its id field, as in the code).  An await is a     *)
(* scheduling point: the code between two awaits is one action.            *)
(***************************************************************************)
EXTENDS Integers, Sequences, FiniteSets, TLC

\* ------------------------------------------------------------------ bounds
\* entries of the list
NumSeries == 2
\* distinct persons that occur on the scraped pages
NumCast == 2
\* longest castsJson of a page
MaxRoster == 2
\* the same two bounds for the wider input set (InitWide)
WideCast == 3
WideRoster == 4
\* runs of processCast + processSeries on one Graph
MaxRuns == 2
\* pages of the catalog list
MaxPages == 2
\* most entries the server puts on one page
PerPage == 2
\* requests of getList that are followed
MaxRequests == 3

\* ------------------------------------------------------------- generic helpers
Range(s) == {s[i] : i \in DOMAIN s}

SeqsUpTo(S, n) == UNION {[1..k -> S] : k \in 0..n}

RemoveAt(s, i) == SubSeq(s, 1, i - 1) \o SubSeq(s, i + 1, Len(s))

Count(s, x) == Cardinality({i \in DOMAIN s : s[i] = x})

RECURSIVE Flatten(_)
Flatten(ss) == IF ss = <<>> THEN <<>> ELSE Head(ss) \o Flatten(Tail(ss))

SameBag(a, b) == \A x \in Range(a) \cup Range(b) : Count(a, x) = Count(b, x)

\* ------------------------------------------------------------------ data
\* Identifiers of persons and of entries (containers) are drawn from two
\* disjoint families, as the catalog's ids are.
CastId(p) == <<"pr", p>>
SerieId(e) == <<"c", e>>
SerieName(e) == <<"title", e>>

\* type Cast, as getCast builds it from one element of castsJson
Cast(p) == [id |-> CastId(p), name |-> <<"name", p>>, url |-> <<"poster", p>>]

\* A scraped page: hasData is whether #__NEXT_DATA__ carries a roster,
\* castsJson is the list of persons it names.
Page(persons) == [hasData |-> TRUE, castsJson |-> persons]
NoRosterPage == [hasData |-> FALSE, castsJson |-> <<>>]

Pages(nCast, maxRoster) ==
    {Page(r) : r \in SeqsUpTo(1..nCast, maxRoster)} \cup {NoRosterPage}

VARIABLES
    pc,        \* position of the main program
    web,       \* web[e]: the page served for entry e of the list
    pending,   \* entries whose callback has not run yet
    cast,      \* Graph.cast
    series,    \* Graph.series
    nodes,     \* Graph.nodes
    edges,     \* Graph.edges
    runs,      \* completed runs of processCast + processSeries
    lpc,       \* position of getList
    catalog,   \* catalog[k]: the entries the server holds on page k of the list
    page,      \* getList's parameter page
    data,      \* getList's parameter data
    requested, \* the page the URL of each request asks for, in order
    cacheOn,   \* args.cache
    cacheFiles \* the files under cache/, as <<name, content>> pairs

gvars == <<pc, web, pending, cast, series, nodes, edges, runs>>
lvars == <<lpc, catalog, page, data, requested, cacheOn, cacheFiles>>
vars == <<gvars, lvars>>

\* the list getList returned: entries 1..NumSeries, in list order
List == 1..NumSeries

\* ------------------------------------------------------------------ getCast
\* JSON.parse('{}').props is undefined, so reading .pageProps throws when the
\* page has no #__NEXT_DATA__; otherwise castsJson is mapped to Cast records.
getCast(p) ==
    IF p.hasData
    THEN [threw |-> FALSE,
          value |-> [i \in DOMAIN p.castsJson |-> Cast(p.castsJson[i])]]
    ELSE [threw |-> TRUE, value |-> <<>>]

\* ------------------------------------------------------------------ Map
MapHas(m, key) == \E i \in DOMAIN m : m[i].id = key

MapSet(m, v) ==
    IF MapHas(m, v.id)
    THEN [i \in DOMAIN m |-> IF m[i].id = v.id THEN v ELSE m[i]]
    ELSE Append(m, v)

RECURSIVE MapSetAll(_, _)
MapSetAll(m, vs) ==
    IF vs = <<>> THEN m ELSE MapSetAll(MapSet(m, Head(vs)), Tail(vs))

\* ------------------------------------------------------------------ Graph.fetch
\* A merge that keeps only the roster that arrived last.
MergeCastReplace(m, c) == MapSetAll(<<>>, c)

\* c.forEach(v => this.cast.set(v.id, v))
MergeCast(m, c) == MapSetAll(m, c)

\* the Serie recorded for entry e with roster c
Serie(e, c) ==
    [id |-> SerieId(e), name |-> SerieName(e), cast |-> [i \in DOMAIN c |-> c[i].id]]

Includes(s, x) == \E i \in DOMAIN s : s[i] = x

\* [...this.series.values()].filter(s => s.cast.includes(id)).length
Recurrence(ser, id) == Cardinality({i \in DOMAIN ser : Includes(ser[i].cast, id)})

ShouldDelete(ser, id) == Recurrence(ser, id) <= 1

\* this.cast.forEach with this.cast.delete of the visited entry: the iterator
\* of a Map goes on with the entry that followed the deleted one.
RECURSIVE PruneFrom(_, _, _)
PruneFrom(m, i, ser) ==
    IF i > Len(m) THEN m
    ELSE IF ShouldDelete(ser, m[i].id)
         THEN PruneFrom(RemoveAt(m, i), i, ser)
         ELSE PruneFrom(m, i + 1, ser)

\* An iteration that steps over the entry that follows a deleted one.
RECURSIVE PruneSkipping(_, _, _)
PruneSkipping(m, i, ser) ==
    IF i > Len(m) THEN m
    ELSE IF ShouldDelete(ser, m[i].id)
         THEN PruneSkipping(RemoveAt(m, i), i + 1, ser)
         ELSE PruneSkipping(m, i + 1, ser)

PruneCastSkipping(m, ser) == PruneSkipping(m, 1, ser)

PruneCast(m, ser) == PruneFrom(m, 1, ser)

\* s.cast = s.cast.filter(c => this.cast.has(c)) for every serie
FilterRosters(ser, m) ==
    [i \in DOMAIN ser |->
        [ser[i] EXCEPT !.cast = SelectSeq(ser[i].cast, LAMBDA c : MapHas(m, c))]]

\* ------------------------------------------------------------------ classify
CastNode(c) == [id |-> c.id, label |-> c.name, shape |-> "circularImage", image |-> c.url]

processCast(ns, m) == ns \o [i \in DOMAIN m |-> CastNode(m[i])]

MapGet(m, key) == m[CHOOSE i \in DOMAIN m : m[i].id = key]

HubNode(s) == [id |-> s.id, label |-> s.name, shape |-> "text"]

\* The hub's edges without the hub's node.
processSeriesMutipleEdgesNoHub(g, s) ==
    [nodes |-> g.nodes,
     edges |-> g.edges \o [i \in DOMAIN s.cast |-> [from |-> s.id, to |-> s.cast[i]]]]

processSeriesMutipleEdges(g, s) ==
    [nodes |-> Append(g.nodes, HubNode(s)),
     edges |-> g.edges \o [i \in DOMAIN s.cast |-> [from |-> s.id, to |-> s.cast[i]]]]

processSeriesSingleEdge(g, s, m) ==
    [nodes |-> g.nodes,
     edges |-> Append(g.edges, [from |-> MapGet(m, s.cast[1]).id,
                                to |-> MapGet(m, s.cast[2]).id,
                                label |-> s.name])]

processSerie(g, s, m) ==
    IF Len(s.cast) = 2 THEN processSeriesSingleEdge(g, s, m)
    ELSE IF Len(s.cast) # 0 THEN processSeriesMutipleEdges(g, s)
    ELSE g

RECURSIVE processSeries(_, _, _)
processSeries(g, ser, m) ==
    IF ser = <<>> THEN g
    ELSE processSeries(processSerie(g, Head(ser), m), Tail(ser), m)

\* ------------------------------------------------------------------ actions
\* getList has returned the list: one page, holding the entries of List.
ListReturned ==
    /\ lpc = "done"
    /\ catalog = <<[i \in List |-> i]>>
    /\ page = 1
    /\ data = [i \in List |-> i]
    /\ requested = <<1>>
    /\ cacheOn = FALSE
    /\ cacheFiles = {}

\* The program only compares person ids for equality, so the persons are
\* numbered in the order in which the pages, read in list order, first name
\* them: person k + 1 is named only after person k.
NumberedByFirstUse(w) ==
    LET named == Flatten([e \in List |-> w[e].castsJson])
    IN \A i \in DOMAIN named :
        named[i] = 1 \/ \E j \in 1..(i - 1) : named[j] = named[i] - 1

InitWith(pages) ==
    /\ ListReturned
    /\ pc = "fetch"
    /\ web \in {w \in [List -> pages] : NumberedByFirstUse(w)}
    /\ pending = List
    /\ cast = <<>>
    /\ series = <<>>
    /\ nodes = <<>>
    /\ edges = <<>>
    /\ runs = 0

Init == InitWith(Pages(NumCast, MaxRoster))

InitWide == InitWith(Pages(WideCast, WideRoster))

\* The callback of list.map for entry e, from the point getCast resolved.
Callback(e) ==
    /\ pc = "fetch"
    /\ e \in pending
    /\ ~getCast(web[e]).threw
    /\ LET c == getCast(web[e]).value IN
        /\ cast' = MergeCast(cast, c)
        /\ series' = MapSet(series, Serie(e, c))
    /\ pending' = pending \ {e}
    /\ UNCHANGED <<pc, web, nodes, edges, runs, lvars>>

\* getCast throws: the callback's promise rejects, so Promise.all and fetch()
\* reject and the top-level await ends the program.
CallbackRejects(e) ==
    /\ pc = "fetch"
    /\ e \in pending
    /\ getCast(web[e]).threw
    /\ pc' = "failed"
    /\ UNCHANGED <<web, pending, cast, series, nodes, edges, runs, lvars>>

\* fetch() after await Promise.all: prune the persons, then filter the rosters.
Prune ==
    /\ pc = "fetch"
    /\ pending = {}
    /\ cast' = PruneCast(cast, series)
    /\ series' = FilterRosters(series, cast')
    /\ pc' = "fetched"
    /\ UNCHANGED <<web, pending, nodes, edges, runs, lvars>>

ProcessCast ==
    /\ pc = "fetched"
    /\ nodes' = processCast(nodes, cast)
    /\ pc' = "cast"
    /\ UNCHANGED <<web, pending, cast, series, edges, runs, lvars>>

ProcessSeries ==
    /\ pc = "cast"
    /\ LET g == processSeries([nodes |-> nodes, edges |-> edges], series, cast) IN
        /\ nodes' = g.nodes
        /\ edges' = g.edges
    /\ runs' = runs + 1
    /\ pc' = "done"
    /\ UNCHANGED <<web, pending, cast, series, lvars>>

\* A second run of processCast on the Graph that already holds a classified
\* graph (the methods are public; the main program runs them once).
ProcessCastAgain ==
    /\ pc = "done"
    /\ runs < MaxRuns
    /\ nodes' = processCast(nodes, cast)
    /\ pc' = "cast"
    /\ UNCHANGED <<web, pending, cast, series, edges, runs, lvars>>

Next ==
    \/ \E e \in List : Callback(e)
    \/ \E e \in List : CallbackRejects(e)
    \/ Prune
    \/ ProcessCast
    \/ ProcessSeries

NextTwice ==
    \/ Next
    \/ ProcessCastAgain

\* the main program: fetch, processCast, processSeries, each once
Spec == Init /\ [][Next]_vars

\* the main program on the wider input set
SpecWide == InitWide /\ [][Next]_vars

\* a caller that classifies twice on the same Graph
SpecTwice == Init /\ [][NextTwice]_vars

\* ------------------------------------------------------------------ getList
\* new URL(`lists/${id}.json`, base) with app and per_page set: the parameter
\* page of getList is not put into the URL.
ListUrl(id) == [path |-> <<"lists", id>>, app |-> "100000a", per_page |-> "50"]

\* The page a URL asks the server for: its page parameter, the first page
\* when it has none.
PageAsked(url) == IF "page" \in DOMAIN url THEN url.page ELSE 1

\* The body the list API answers with.
Server(url) ==
    [response |-> catalog[PageAsked(url)], more |-> PageAsked(url) < Len(catalog)]

sha256(d) == <<"sha256", d>>

CacheName(url) == <<"cache", sha256(url)>>

CacheHit(url) == \E f \in cacheFiles : f[1] = CacheName(url)

CacheRead(url) == (CHOOSE f \in cacheFiles : f[1] = CacheName(url))[2]

\* fetchCache(url): the response's body, the files under cache/ afterwards and
\* whether the server was asked.
fetchCache(url) ==
    IF ~cacheOn THEN [body |-> Server(url), files |-> cacheFiles, asked |-> TRUE]
    ELSE IF CacheHit(url)
         THEN [body |-> CacheRead(url), files |-> cacheFiles, asked |-> FALSE]
         ELSE [body |-> Server(url),
               files |-> cacheFiles \cup {<<CacheName(url), Server(url)>>},
               asked |-> TRUE]

CatalogPages == SeqsUpTo(1..NumSeries, PerPage) \ {<<>>}

Catalogs == SeqsUpTo(CatalogPages, MaxPages) \ {<<>>}

InitList ==
    /\ lpc = "call"
    /\ catalog \in Catalogs
    /\ page = 1
    /\ data = <<>>
    /\ requested = <<>>
    /\ cacheOn \in BOOLEAN
    /\ cacheFiles = {}
    /\ pc = "getList"
    /\ web = <<>>
    /\ pending = {}
    /\ cast = <<>>
    /\ series = <<>>
    /\ nodes = <<>>
    /\ edges = <<>>
    /\ runs = 0

\* One call of getList(id, page, data), to its return or its recursive call.
GetListCall ==
    /\ lpc = "call"
    /\ Len(requested) < MaxRequests
    /\ LET r == fetchCache(ListUrl("list")) IN
        /\ cacheFiles' = r.files
        /\ requested' = Append(requested, PageAsked(ListUrl("list")))
        /\ data' = data \o r.body.response
        /\ IF r.body.more
           THEN page' = page + 1 /\ lpc' = "call"
           ELSE page' = page /\ lpc' = "done"
    /\ UNCHANGED <<catalog, cacheOn, gvars>>

NextList == GetListCall

\* getList alone, on every catalog within the bounds
SpecList == InitList /\ [][NextList]_vars

\* ------------------------------------------------------------------ properties
Persons == 1..(IF NumCast > WideCast THEN NumCast ELSE WideCast)

\* the persons the page of entry e names
Roster(e) == Range(web[e].castsJson)

\* the persons named by the original rosters of at least two entries
Recurring == {p \in Persons : Cardinality({e \in List : p \in Roster(e)}) >= 2}

Pruned == pc \in {"fetched", "cast", "done"}

\* the graph of the main program: one run of processCast and processSeries
Built == pc = "done" /\ runs = 1

HasLabel(ed) == "label" \in DOMAIN ed

NodeIds == {nodes[i].id : i \in DOMAIN nodes}

\* the surviving participants of a serie
Survivors(s) == Range(s.cast)

\* the edges emitted for serie s: those that leave its hub or carry its name
EdgesOf(s) ==
    {i \in DOMAIN edges :
        edges[i].from = s.id \/ (HasLabel(edges[i]) /\ edges[i].label = s.name)}

HubsOf(s) == {i \in DOMAIN nodes : nodes[i].id = s.id}

\* C1: an entry left with 0 or 1 roster elements after pruning emits nothing:
\* no node with its id, no edge that has it as an endpoint or carries its name.
C1_SmallEntriesEmitNothing ==
    Built =>
        \A k \in DOMAIN series :
            Len(series[k].cast) <= 1 =>
                /\ HubsOf(series[k]) = {}
                /\ EdgesOf(series[k]) = {}
                /\ \A i \in DOMAIN edges : edges[i].to # series[k].id

\* C2: after pruning, Graph.cast holds exactly the ingested persons whose id
\* occurs in the original roster of at least two entries, each once and with
\* its ingested record.
C2_PrunedIsRecurring ==
    Pruned =>
        /\ Range(cast) = {Cast(p) : p \in Recurring}
        /\ Len(cast) = Cardinality(Recurring)

\* C2 witness: pruning ran on an input where it removed one person and kept
\* another.
C2_Witness ==
    /\ pc = "fetched"
    /\ cast # <<>>
    /\ \E e \in List : \E p \in Roster(e) : ~MapHas(cast, CastId(p))

\* C3: an entry with exactly two surviving participants gets exactly one edge,
\* between those two and labelled with its name, and no hub node.
C3_TwoSurvivorsOneEdge ==
    Built =>
        \A k \in DOMAIN series :
            Cardinality(Survivors(series[k])) = 2 =>
                /\ HubsOf(series[k]) = {}
                /\ Cardinality(EdgesOf(series[k])) = 1
                /\ \A i \in EdgesOf(series[k]) :
                    /\ HasLabel(edges[i])
                    /\ edges[i].label = series[k].name
                    /\ {edges[i].from, edges[i].to} = Survivors(series[k])

\* C4: an entry with three or more surviving participants gets exactly one hub
\* node (its id, its name, shape text, no image) and one unlabelled edge from
\* the hub to each surviving participant, as many edges as participants.
C4_ManySurvivorsOneHub ==
    Built =>
        \A k \in DOMAIN series :
            Cardinality(Survivors(series[k])) >= 3 =>
                /\ Cardinality(HubsOf(series[k])) = 1
                /\ \A i \in HubsOf(series[k]) : nodes[i] = HubNode(series[k])
                /\ Cardinality(EdgesOf(series[k])) = Cardinality(Survivors(series[k]))
                /\ \A i \in EdgesOf(series[k]) :
                    /\ ~HasLabel(edges[i])
                    /\ edges[i].from = series[k].id
                    /\ edges[i].to \in Survivors(series[k])
                /\ \A i, j \in EdgesOf(series[k]) :
                    edges[i].to = edges[j].to => i = j

\* C5: in the built graph every edge's from and to is the id of a node.
C5_NoDanglingEdge ==
    Built =>
        \A i \in DOMAIN edges : edges[i].from \in NodeIds /\ edges[i].to \in NodeIds

\* C5 witness: a built graph with a labelled edge and a hub's edge.
C5_Witness ==
    /\ Built
    /\ \E i \in DOMAIN edges : HasLabel(edges[i])
    /\ \E i \in DOMAIN edges : ~HasLabel(edges[i])

\* C6: a page without a roster never makes the construction fail: its entry is
\* ingested with an empty participant list.
C6_MissingRosterIsEmpty ==
    /\ pc # "failed"
    /\ \A e \in List :
        (e \notin pending /\ ~web[e].hasData) =>
            \E k \in DOMAIN series : series[k] = Serie(e, <<>>)

\* The graph one run of processCast and processSeries builds from the pruned
\* sets.
FirstGraph ==
    processSeries([nodes |-> processCast(<<>>, cast), edges |-> <<>>], series, cast)

\* C7: after a second run of processCast and processSeries on the same pruned
\* sets, nodes and edges hold the same elements with the same multiplicities
\* as after the first run.
C7_ClassifyIdempotent ==
    (pc = "done" /\ runs = 2) =>
        /\ SameBag(nodes, FirstGraph.nodes)
        /\ SameBag(edges, FirstGraph.edges)

\* The state the callbacks leave when they run in list order.
RECURSIVE IngestInOrder(_)
IngestInOrder(n) ==
    IF n = 0 THEN [cast |-> <<>>, series |-> <<>>]
    ELSE LET before == IngestInOrder(n - 1)
             c == getCast(web[n]).value
         IN [cast |-> MergeCast(before.cast, c),
             series |-> MapSet(before.series, Serie(n, c))]

InOrder == IngestInOrder(NumSeries)

InOrderCast == PruneCast(InOrder.cast, InOrder.series)

\* C8: whatever the order in which the roster fetches complete, the merged
\* participants, every entry's recorded roster, the survivors of the pruning
\* and the sets of nodes and edges are those of the completion in list order.
C8_CompletionOrderIrrelevant ==
    /\ (pc = "fetch" /\ pending = {}) =>
        LET o == InOrder IN
        /\ Range(cast) = Range(o.cast)
        /\ Range(series) = Range(o.series)
    /\ (Pruned /\ ~Built) =>
        LET o == InOrder
            c == PruneCast(o.cast, o.series)
        IN
        /\ Range(cast) = Range(c)
        /\ Range(series) = Range(FilterRosters(o.series, c))
    /\ Built =>
        LET o == InOrder
            c == PruneCast(o.cast, o.series)
            s == FilterRosters(o.series, c)
            g == processSeries([nodes |-> processCast(<<>>, c), edges |-> <<>>], s, c)
        IN
        /\ Range(cast) = Range(c)
        /\ Range(series) = Range(s)
        /\ Range(nodes) = Range(g.nodes)
        /\ Range(edges) = Range(g.edges)

\* C8 witness: a graph with edges, built after the fetches completed in an
\* order that is not the list's.
C8_Witness ==
    /\ Built
    /\ edges # <<>>
    /\ series[1].id # SerieId(1)
    /\ cast # InOrderCast

IsPrefix(a, b) == Len(a) <= Len(b) /\ a = SubSeq(b, 1, Len(a))

\* C9: getList asks for each successive page once, gathers the pages' entries
\* in page order, and what it returns is the entries of all pages.
C9_EachPageOnceInOrder ==
    /\ \A i \in DOMAIN requested : requested[i] = i
    /\ IsPrefix(data, Flatten(catalog))
    /\ lpc = "done" => data = Flatten(catalog)

\* C10: no edge of the built graph is a self-loop.
C10_NoSelfLoop ==
    Built => \A i \in DOMAIN edges : edges[i].from # edges[i].to

====
